---------------------------- MODULE Spec2Model ----------------------------
(***************************************************************************)
(* Source synchronisation engine of the legal contract analyzer:           *)
(* KnowledgeBaseManager (python-services/kb_manager.py), the tracking      *)
(* document it keeps (kb_tracking.json), the integration configs it reads  *)
(* (integration_configs.json) and the per-instance jobs it creates in the  *)
(* MindsDB project.                                                        *)
(*                                                                         *)
(* Names are sequences of tokens, so that the string operations of the     *)
(* code (concatenation, endswith, replace, substring) are computed and not *)
(* assumed: "crm_1.deals" is <<"crm", "_1", ".", "deals">>.                 *)
(***************************************************************************)
EXTENDS Integers, Sequences, FiniteSets, TLC

VARIABLES
    configs,            \* integration_configs.json: instance name -> config
    connected,          \* user databases server.list_databases() returns
    processed_sources,  \* self.processed_sources, the tracking document
    tracking_file,      \* kb_tracking.json as last written
    jobs,               \* the jobs of the MindsDB project
    now,                \* datetime.now(), a logical clock
    result,             \* what the last manager operation returned
    handlers,           \* the request handlers inside sync_all_sources
    loop,               \* the handler the event loop is running, 0 if none
    insert_query        \* the INSERT query last generated for a table

vars == <<configs, connected, processed_sources, tracking_file, jobs, now, result,
          handlers, loop, insert_query>>

\* the state of the request handlers, and the last generated query
tasks == <<handlers, loop, insert_query>>

(***************************************************************************)
(* Bounds                                                                  *)
(***************************************************************************)
MaxClock == 3
DeepClock == 4
MaxHandlers == 2

\* Python None, for a selected_tables value, a timestamp and a name
None == {"None"}
NoTime == 0
NoName == << >>

(***************************************************************************)
(* Names                                                                   *)
(***************************************************************************)
crm == <<"crm">>
crm_1 == <<"crm", "_1">>
files == <<"files">>
legacy == <<"pg", "_datasource_for_legal_contracts">>

Tables == {"deals", "contacts"}

\* instances a user can connect and disconnect
UserDatabases == {crm, crm_1}

\* databases the server always lists
FixedDatabases == {files, legacy, <<"mindsdb">>, <<"information_schema">>}

\* instances that can be given an entry in integration_configs.json
ConfigurableNames == {crm, crm_1, files}

\* db.list_tables() of each database
TablesOf(db) ==
    IF db = crm THEN {"deals", "contacts"}
    ELSE IF db \in {crm_1, files, legacy} THEN {"deals"}
    ELSE {}

\* the values the selected_tables key of a config can hold
Selections == {None} \cup SUBSET Tables

SelectionsFor(name) == IF name = crm THEN Selections ELSE {{"deals"}}

job_name_prefix == <<"kb_sync_">>

datasource_pattern == <<"_datasource_for_legal_contracts">>

SystemDatabases == {<<"mindsdb">>, <<"information_schema">>, <<"files">>}

EndsWith(s, suffix) ==
    /\ Len(s) >= Len(suffix)
    /\ SubSeq(s, Len(s) - Len(suffix) + 1, Len(s)) = suffix

FullName(db, table) == db \o <<".">> \o <<table>>

Source(db, table) ==
    [instance_name |-> db, table_name |-> table, full_name |-> FullName(db, table)]

AllSources == {Source(db, t) : db \in UserDatabases \cup FixedDatabases, t \in Tables}

FullNames(sources) == {s.full_name : s \in sources}

EmptyMap == [k \in {} |-> NoTime]

(***************************************************************************)
(* Source Registry reads                                                   *)
(***************************************************************************)
\* Python truthiness of config.get('selected_tables')
Truthy(selected) == selected # None /\ selected # {}

GetSelectedTablesForDatasource(cfg, name) ==
    IF name \in DOMAIN cfg THEN cfg[name].selected_tables ELSE None

\* a check that counts the configs, selected tables or not
HasConfiguredDatasources_AnyConfig(cfg) == Cardinality(DOMAIN cfg) > 0

HasConfiguredDatasources(cfg) ==
    Cardinality({name \in DOMAIN cfg : Truthy(cfg[name].selected_tables)}) > 0

(***************************************************************************)
(* Discovery                                                               *)
(***************************************************************************)
IsConfigured(cfg, db) == db \in DOMAIN cfg \/ EndsWith(db, datasource_pattern)

\* a Discovery that takes every table of a configured database
GetLegalContractDatasources_AllTables(cfg, dbs, unlistable, inaccessible) ==
    {s \in AllSources :
        /\ s.instance_name \in dbs
        /\ s.instance_name \notin SystemDatabases
        /\ IsConfigured(cfg, s.instance_name)
        /\ s.instance_name \notin unlistable
        /\ s.table_name \in TablesOf(s.instance_name)
        /\ s \notin inaccessible}

\* unlistable: databases whose list_tables() raises in this call
\* inaccessible: sources whose db.tables.get() raises in this call
GetLegalContractDatasources(cfg, dbs, unlistable, inaccessible) ==
    {s \in AllSources :
        /\ s.instance_name \in dbs
        /\ s.instance_name \notin SystemDatabases
        /\ IsConfigured(cfg, s.instance_name)
        /\ s.instance_name \notin unlistable
        /\ s.table_name \in TablesOf(s.instance_name)
        /\ GetSelectedTablesForDatasource(cfg, s.instance_name) # None
        /\ s.table_name \in GetSelectedTablesForDatasource(cfg, s.instance_name)
        /\ s \notin inaccessible}

ListDatabases(conn) == conn \cup FixedDatabases

\* every list Discovery can return in a state: the outer except gives []
DiscoveryOutcomes(cfg, conn) ==
    {{}} \cup
    {GetLegalContractDatasources(cfg, ListDatabases(conn), u, a) :
        u \in SUBSET conn,
        a \in SUBSET GetLegalContractDatasources(cfg, ListDatabases(conn), {}, {})}

GetDatasourcesByInstance(sources) ==
    [name \in {s.instance_name : s \in sources} |->
        {s \in sources : s.instance_name = name}]

\* a job name that leaves the instance out
GetJobNameForInstance_PrefixOnly(instance_name) == job_name_prefix

GetJobNameForInstance(instance_name) == job_name_prefix \o instance_name

(***************************************************************************)
(* Tracking document                                                       *)
(***************************************************************************)
DefaultTracking ==
    [processed_sources |-> EmptyMap, last_sync |-> NoTime, sync_count |-> 0]

\* an entry whose first_processed is stamped anew on every write
Entry_Restamped(first, last, status, removed) ==
    [first_processed |-> last, last_synced |-> last,
     status |-> status, removed_date |-> removed]

Entry(first, last, status, removed) ==
    [first_processed |-> first, last_synced |-> last,
     status |-> status, removed_date |-> removed]

\* _save_tracking_data: the write either succeeds or is logged and dropped
SaveTrackingData(file, doc, saveOk) == IF saveOk THEN doc ELSE file

\* what is on disk instead of a document when the write did not finish:
\* open(..., 'w') has truncated the file, json.dump has written a part
EmptyFile == [content |-> "empty"]
HalfWritten == [content |-> "half_written"]

IsDocument(file) == file \notin {EmptyFile, HalfWritten}

\* the points of _save_tracking_data at which the process can stop
CrashPoints == {"before_open", "after_open", "in_dump", "after_dump"}

\* the file a write of doc leaves behind when the process stops at point
WriteInterrupted(file, doc, point) ==
    CASE point = "before_open" -> file
      [] point = "after_open" -> EmptyFile
      [] point = "in_dump" -> HalfWritten
      [] point = "after_dump" -> doc

\* _load_tracking_data: an empty file and a JSON error give the default
LoadTrackingData(file) == IF IsDocument(file) THEN file ELSE DefaultTracking

\* _initialize_config_files: a file of size 0 is rewritten with the default
InitializeConfigFiles(file) == IF file = EmptyFile THEN DefaultTracking ELSE file

\* the return value of a manager operation: its status, the sources it
\* worked on and those it got through, the instance it was called for and
\* the per-instance statuses it reports; unlisted: the instances for which
\* jobs.list() raised during the operation; attempted: the sources a pass
\* names as the ones it went through, errors: the sources of its error
\* list, ingested: the sources whose bulk insert returned during the pass
Result(op, status, sources, processed, instance, reports, unlisted, attempted, errors, ingested) ==
    [op |-> op, status |-> status, sources |-> sources, processed |-> processed,
     instance |-> instance, reports |-> reports, unlisted |-> unlisted,
     attempted |-> attempted, errors |-> errors, ingested |-> ingested]

NoResult == Result("none", "none", {}, {}, NoName, EmptyMap, {}, {}, {}, {})

(***************************************************************************)
(* Job scheduler of the MindsDB project                                    *)
(***************************************************************************)
Job(name, instance_name, sources) ==
    [name |-> name, instance |-> instance_name, queries |-> FullNames(sources)]

JobNames(js) == {j.name : j \in js}

StartsWith(s, prefix) ==
    Len(s) >= Len(prefix) /\ SubSeq(s, 1, Len(prefix)) = prefix

\* str.replace(job_name_prefix, ''): every occurrence of the prefix goes
RemovePrefixToken(name) == SelectSeq(name, LAMBDA tok : <<tok>> # job_name_prefix)

\* cleanup_sync_job_if_needed; instances: the sources a fresh Discovery
\* returned, listOk: jobs.list() succeeded, undroppable: jobs whose
\* drop_job raises
CleanupSyncJobIfNeeded(js, instances, listOk, undroppable) ==
    LET configured_instance_names == DOMAIN GetDatasourcesByInstance(instances)
        instance_jobs == {j \in js : StartsWith(j.name, job_name_prefix)}
        orphaned_jobs == {j \in instance_jobs :
                            RemovePrefixToken(j.name) \notin configured_instance_names}
        removed_jobs == orphaned_jobs \ undroppable
    IN  IF ~listOk
        THEN [jobs |-> js, status |-> "error", removed |-> {}]
        ELSE [jobs |-> js \ removed_jobs,
              status |-> IF removed_jobs # {} THEN "cleanup_completed"
                         ELSE "no_cleanup_needed",
              removed |-> JobNames(removed_jobs)]

\* the with-block of create_instance_sync_job, lines 893-963.  added: the
\* sources whose query was added, createOk: the CREATE JOB statement the
\* context manager sends on exit did not fail.  The SDK's context manager
\* raises ValueError('No queries were added to job') on exit when no query
\* was added, and the server rejects a job name that exists; both land in
\* the outer except, which returns 'error'.
CreateJobBlock(js, job_name, instance_name, added, createOk) ==
    LET queries_added == Cardinality(added)
        exitRaises == \/ queries_added = 0
                      \/ job_name \in JobNames(js)
                      \/ ~createOk
    IN  IF exitRaises
        THEN [jobs |-> js, status |-> "error"]
        ELSE IF queries_added = 0
        THEN [jobs |-> js \cup {Job(job_name, instance_name, added)},
              status |-> "failed"]
        ELSE [jobs |-> js \cup {Job(job_name, instance_name, added)},
              status |-> "created"]

\* an existence check that compares the job names with the instance name
CreateInstanceSyncJobOp_WrongNameCheck(js, instance_name, sources, listOk, added, createOk) ==
    LET job_name == GetJobNameForInstance(instance_name)
    IN  IF sources = {}
        THEN [jobs |-> js, status |-> "skipped"]
        ELSE IF listOk /\ instance_name \in JobNames(js)
        THEN [jobs |-> js, status |-> "already_exists"]
        ELSE CreateJobBlock(js, job_name, instance_name, added \cap sources,
                            createOk)

\* create_instance_sync_job; listOk: jobs.list() succeeded
CreateInstanceSyncJobOp(js, instance_name, sources, listOk, added, createOk) ==
    LET job_name == GetJobNameForInstance(instance_name)
    IN  IF sources = {}
        THEN [jobs |-> js, status |-> "skipped"]
        ELSE IF listOk /\ job_name \in JobNames(js)
        THEN [jobs |-> js, status |-> "already_exists"]
        ELSE CreateJobBlock(js, job_name, instance_name, added \cap sources,
                            createOk)

\* the loop of create_hourly_sync_job over instances.items(); names: the
\* instances still to visit
RECURSIVE CreateJobsForInstances(_, _, _, _, _, _)
CreateJobsForInstances(js, instances, names, listable, added, creatable) ==
    IF names = {}
    THEN [jobs |-> js, reports |-> EmptyMap]
    ELSE LET name == CHOOSE n \in names : TRUE
             one == CreateInstanceSyncJobOp(js, name, instances[name],
                                            name \in listable, added,
                                            name \in creatable)
             rest == CreateJobsForInstances(one.jobs, instances, names \ {name},
                                            listable, added, creatable)
         IN  [jobs |-> rest.jobs,
              reports |-> (name :> one.status) @@ rest.reports]

\* a drop that takes every job of the prefix with it
DropInstanceSyncJobOp_AllPrefixed(js, instance_name, listOk, dropOk) ==
    LET job_name == GetJobNameForInstance(instance_name)
        job_exists == job_name \in JobNames(js)
    IN  IF ~listOk THEN [jobs |-> js, status |-> "raised"]
        ELSE IF job_exists
        THEN IF dropOk
             THEN [jobs |-> {j \in js : ~StartsWith(j.name, job_name_prefix)},
                   status |-> "dropped"]
             ELSE [jobs |-> js, status |-> "raised"]
        ELSE [jobs |-> js, status |-> "not_found"]

\* drop_instance_sync_job; dropOk: drop_job did not raise
DropInstanceSyncJobOp(js, instance_name, listOk, dropOk) ==
    LET job_name == GetJobNameForInstance(instance_name)
        job_exists == job_name \in JobNames(js)
    IN  IF ~listOk THEN [jobs |-> js, status |-> "raised"]
        ELSE IF job_exists
        THEN IF dropOk
             THEN [jobs |-> {j \in js : j.name # job_name}, status |-> "dropped"]
             ELSE [jobs |-> js, status |-> "raised"]
        ELSE [jobs |-> js, status |-> "not_found"]

(***************************************************************************)
(* Full sync pass                                                          *)
(***************************************************************************)
\* a removal that drops the stale entries instead of stamping them
MarkRemoved_Deleting(ps, stale, t) == [k \in DOMAIN ps \ stale |-> ps[k]]

\* lines 761-771: every tracked key Discovery did not return is stamped
MarkRemoved(ps, stale, t) ==
    [k \in DOMAIN ps |->
        IF k \in stale
        THEN [ps[k] EXCEPT !.status = "removed", !.removed_date = t]
        ELSE ps[k]]

\* an upsert that only creates entries and leaves an existing one alone
UpsertProcessed_InsertOnly(ps, names, t) ==
    [k \in DOMAIN ps \cup names |->
        IF k \in DOMAIN ps THEN ps[k] ELSE Entry(t, t, "processed", NoTime)]

\* lines 802-808: the entry a successful ingestion writes
UpsertProcessed(ps, names, t) ==
    [k \in DOMAIN ps \cup names |->
        IF k \in names
        THEN Entry(IF k \in DOMAIN ps THEN ps[k].first_processed ELSE t,
                   t, "processed", NoTime)
        ELSE ps[k]]

\* a pass that writes the entry of every unit Discovery returned, ingested
\* or not
SyncTracking_UpsertsDiscovered(doc, legal_sources, ingested, t) ==
    LET current_source_names == FullNames(legal_sources)
        removed_sources == DOMAIN doc.processed_sources \ current_source_names
        marked == MarkRemoved(doc.processed_sources, removed_sources, t)
    IN  [processed_sources |-> UpsertProcessed(marked, current_source_names, t),
         last_sync |-> t,
         sync_count |-> doc.sync_count + 1]

\* a pass that takes the set difference of line 764 the wrong way round
SyncTracking_ReversedDifference(doc, legal_sources, ingested, t) ==
    LET current_source_names == FullNames(legal_sources)
        removed_sources == current_source_names \ DOMAIN doc.processed_sources
        marked == MarkRemoved(doc.processed_sources, removed_sources, t)
    IN  [processed_sources |-> UpsertProcessed(marked, FullNames(ingested), t),
         last_sync |-> t,
         sync_count |-> doc.sync_count + 1]

\* legal_sources: what Discovery returned, ingested: the sources whose
\* bulk insert did not raise
SyncTracking(doc, legal_sources, ingested, t) ==
    LET current_source_names == FullNames(legal_sources)
        removed_sources == DOMAIN doc.processed_sources \ current_source_names
        marked == MarkRemoved(doc.processed_sources, removed_sources, t)
    IN  [processed_sources |-> UpsertProcessed(marked, FullNames(ingested), t),
         last_sync |-> t,
         sync_count |-> doc.sync_count + 1]

SyncAllSources(limit) ==
    \/ /\ ~HasConfiguredDatasources(configs)
       /\ result' = Result("sync_all_sources", "skipped", {}, {}, NoName,
                           EmptyMap, {}, {}, {}, {})
       /\ UNCHANGED <<tasks, configs, connected, processed_sources, tracking_file,
                      jobs, now>>
    \/ /\ HasConfiguredDatasources(configs)
       /\ now < limit
       /\ \E legal_sources \in DiscoveryOutcomes(configs, connected) :
          \E ingested \in SUBSET legal_sources :
          \E saveOk \in BOOLEAN, agentOk \in BOOLEAN :
          \E instances \in DiscoveryOutcomes(configs, connected) :
          \E listOk \in BOOLEAN, undroppable \in SUBSET jobs :
            LET doc == SyncTracking(processed_sources, legal_sources, ingested, now)
                cleanup == CleanupSyncJobIfNeeded(jobs, instances, listOk,
                                                  undroppable)
                runsCleanup == agentOk /\ legal_sources = {}
            IN  /\ runsCleanup \/ (instances = {} /\ listOk /\ undroppable = {})
                /\ processed_sources' = doc
                /\ tracking_file' = SaveTrackingData(tracking_file, doc, saveOk)
                /\ jobs' = IF runsCleanup THEN cleanup.jobs ELSE jobs
                /\ result' = Result("sync_all_sources",
                                    IF agentOk THEN "completed" ELSE "raised",
                                    legal_sources, ingested, NoName, EmptyMap, {},
                                    legal_sources, {}, ingested)
       /\ now' = now + 1
       /\ UNCHANGED <<tasks, configs, connected>>

(***************************************************************************)
(* The process stops inside the save of a sync pass and the service is     *)
(* started again: __init__ loads the tracking file                         *)
(***************************************************************************)
CrashDuringSaveAndRestart(limit) ==
    /\ HasConfiguredDatasources(configs)
    /\ now < limit
    /\ \E legal_sources \in DiscoveryOutcomes(configs, connected) :
       \E ingested \in SUBSET legal_sources :
       \E point \in CrashPoints :
        LET doc == SyncTracking(processed_sources, legal_sources, ingested, now)
            file == WriteInterrupted(tracking_file, doc, point)
        IN  /\ processed_sources' = LoadTrackingData(file)
            /\ tracking_file' = InitializeConfigFiles(file)
            /\ result' = Result("__init__", "loaded", legal_sources, ingested,
                                NoName, EmptyMap, {}, {}, {}, {})
    /\ now' = now + 1
    /\ UNCHANGED <<tasks, configs, connected, jobs>>

(***************************************************************************)
(* sync_all_sources as the event loop runs it for a request handler.  The  *)
(* routes are coroutines (async def) on the one event loop uvicorn.run     *)
(* starts, and a coroutine keeps the loop until an await suspends it.      *)
(***************************************************************************)
Handlers == 1..MaxHandlers

Idle == [pc |-> "idle", legal_sources |-> {}, todo |-> {}, done |-> {},
         t |-> NoTime]

\* the awaits of sync_all_sources, lines 777, 795, 832 and 836
AwaitSites == {"_is_kb_empty", "bulk_insert_contracts_from_datasource",
               "update_agent", "cleanup_sync_job_if_needed"}

\* an event loop that is given up while a bulk insert is awaited
Suspends_InBulkInsert(site) == site = "bulk_insert_contracts_from_datasource"

\* the awaited coroutines await nothing but coroutines of the same code,
\* down to the blocking calls of the MindsDB SDK: no await in the pass
\* gives up the event loop
Suspends(site) == FALSE

\* who has the event loop once handler h has reached the await at site
Yield(h, site) == IF Suspends(site) THEN 0 ELSE h

\* handler h is inside the pass and is the one the loop runs or resumes
Runs(h) == handlers[h].pc # "idle" /\ loop \in {0, h}

\* lines 825-829
CloseTracking(doc, t) ==
    [doc EXCEPT !.last_sync = t, !.sync_count = @ + 1]

\* lines 742-777: configuration check, Discovery, removal marking
HandlerBegin(h, limit) ==
    /\ loop = 0
    /\ handlers[h].pc = "idle"
    /\ HasConfiguredDatasources(configs)
    /\ now < limit
    /\ \E legal_sources \in DiscoveryOutcomes(configs, connected) :
        LET removed_sources == DOMAIN processed_sources.processed_sources
                                  \ FullNames(legal_sources)
        IN  /\ processed_sources' =
                  [processed_sources EXCEPT !.processed_sources =
                      MarkRemoved(@, removed_sources, now)]
            /\ handlers' = [handlers EXCEPT ![h] =
                  [pc |-> "_is_kb_empty", legal_sources |-> legal_sources,
                   todo |-> legal_sources, done |-> {}, t |-> now]]
    /\ loop' = Yield(h, "_is_kb_empty")
    /\ now' = now + 1
    /\ result' = NoResult
    /\ UNCHANGED <<configs, connected, tracking_file, jobs, insert_query>>

\* lines 777-786: the empty check returns; with nothing to insert the pass
\* goes on to the save of lines 825-829
HandlerKbCheck(h) ==
    /\ Runs(h)
    /\ handlers[h].pc = "_is_kb_empty"
    /\ IF handlers[h].todo # {}
       THEN /\ handlers' = [handlers EXCEPT ![h].pc =
                               "bulk_insert_contracts_from_datasource"]
            /\ loop' = Yield(h, "bulk_insert_contracts_from_datasource")
            /\ UNCHANGED <<processed_sources, tracking_file>>
       ELSE \E saveOk \in BOOLEAN :
              LET doc == CloseTracking(processed_sources, handlers[h].t)
              IN  /\ processed_sources' = doc
                  /\ tracking_file' = SaveTrackingData(tracking_file, doc, saveOk)
                  /\ handlers' = [handlers EXCEPT ![h].pc = "update_agent"]
                  /\ loop' = Yield(h, "update_agent")
    /\ UNCHANGED <<configs, connected, jobs, now, result, insert_query>>

\* lines 788-823 for one source, and lines 825-829 after the last one
HandlerBulkInsert(h) ==
    /\ Runs(h)
    /\ handlers[h].pc = "bulk_insert_contracts_from_datasource"
    /\ \E s \in handlers[h].todo : \E ok \in BOOLEAN :
        LET todo == handlers[h].todo \ {s}
            upserted ==
                IF ok
                THEN [processed_sources EXCEPT !.processed_sources =
                        UpsertProcessed(@, {s.full_name}, handlers[h].t)]
                ELSE processed_sources
            done == IF ok THEN handlers[h].done \cup {s} ELSE handlers[h].done
        IN  IF todo # {}
            THEN /\ processed_sources' = upserted
                 /\ handlers' = [handlers EXCEPT ![h].todo = todo,
                                                 ![h].done = done]
                 /\ loop' = Yield(h, "bulk_insert_contracts_from_datasource")
                 /\ UNCHANGED tracking_file
            ELSE \E saveOk \in BOOLEAN :
                 LET doc == CloseTracking(upserted, handlers[h].t)
                 IN  /\ processed_sources' = doc
                     /\ tracking_file' = SaveTrackingData(tracking_file, doc,
                                                          saveOk)
                     /\ handlers' = [handlers EXCEPT ![h].todo = todo,
                                                     ![h].done = done,
                                                     ![h].pc = "update_agent"]
                     /\ loop' = Yield(h, "update_agent")
    /\ UNCHANGED <<configs, connected, jobs, now, result, insert_query>>

\* what sync_all_sources hands back to the route
HandlerResult(h, status) ==
    Result("sync_all_sources", status, handlers[h].legal_sources,
           handlers[h].done, NoName, EmptyMap, {}, handlers[h].legal_sources,
           {}, handlers[h].done)

\* lines 831-850: the agent refresh returns or raises
HandlerUpdateAgent(h) ==
    /\ Runs(h)
    /\ handlers[h].pc = "update_agent"
    /\ \E agentOk \in BOOLEAN :
        IF agentOk /\ handlers[h].legal_sources = {}
        THEN /\ handlers' = [handlers EXCEPT ![h].pc =
                                "cleanup_sync_job_if_needed"]
             /\ loop' = Yield(h, "cleanup_sync_job_if_needed")
             /\ UNCHANGED result
        ELSE /\ handlers' = [handlers EXCEPT ![h] = Idle]
             /\ loop' = 0
             /\ result' = HandlerResult(h, IF agentOk THEN "completed"
                                           ELSE "raised")
    /\ UNCHANGED <<configs, connected, processed_sources, tracking_file, jobs, now,
                   insert_query>>

\* lines 834-850: the cleanup returns and the pass with it
HandlerCleanup(h) ==
    /\ Runs(h)
    /\ handlers[h].pc = "cleanup_sync_job_if_needed"
    /\ \E instances \in DiscoveryOutcomes(configs, connected) :
       \E listOk \in BOOLEAN, undroppable \in SUBSET jobs :
         jobs' = CleanupSyncJobIfNeeded(jobs, instances, listOk, undroppable).jobs
    /\ handlers' = [handlers EXCEPT ![h] = Idle]
    /\ loop' = 0
    /\ result' = HandlerResult(h, "completed")
    /\ UNCHANGED <<configs, connected, processed_sources, tracking_file, now,
                   insert_query>>

(***************************************************************************)
(* get_kb_status                                                           *)
(***************************************************************************)
GetKbStatus ==
    /\ \E current_sources \in DiscoveryOutcomes(configs, connected) :
       \E instances \in DiscoveryOutcomes(configs, connected) :
       \E listOk \in BOOLEAN :
        LET names == DOMAIN GetDatasourcesByInstance(instances)
            instance_jobs_info ==
                IF listOk
                THEN [name \in names |->
                        IF GetJobNameForInstance(name) \in JobNames(jobs)
                        THEN "active" ELSE "not_created"]
                ELSE EmptyMap
        IN  result' = Result("get_kb_status", "ok", current_sources, {}, NoName,
                             instance_jobs_info, {}, {}, {}, {})
    /\ UNCHANGED <<tasks, configs, connected, processed_sources, tracking_file, jobs, now>>

(***************************************************************************)
(* Initialize-from-existing pass                                           *)
(***************************************************************************)
\* a result object on which the attribute read of line 702 succeeds
ResultHasStatusAttribute_Object == TRUE

\* bulk_insert_contracts_from_datasource returns a dict, and line 702 reads
\* result.status: the attribute read raises and the except of line 709
\* takes the source as failed, before the entry is assigned
ResultHasStatusAttribute == FALSE

\* lines 666-675: the sources whose key is not in the tracking document
NewSources(doc, legal_sources) ==
    {s \in legal_sources : s.full_name \notin DOMAIN doc.processed_sources}

InitializeTracking(doc, legal_sources, ingested, t) ==
    LET ps == doc.processed_sources
        new_sources == NewSources(doc, legal_sources)
        recorded == {s \in new_sources \cap ingested : ResultHasStatusAttribute}
    IN  [processed_sources |->
            [k \in DOMAIN ps \cup FullNames(recorded) |->
                IF k \in FullNames(recorded)
                THEN Entry(t, t, "completed", NoTime)
                ELSE ps[k]],
         last_sync |-> t,
         sync_count |-> doc.sync_count + 1]

InitializeKbWithExistingSources(limit) ==
    \/ /\ ~HasConfiguredDatasources(configs)
       /\ result' = Result("initialize_kb_with_existing_sources", "skipped",
                           {}, {}, NoName, EmptyMap, {}, {}, {}, {})
       /\ UNCHANGED <<tasks, configs, connected, processed_sources, tracking_file,
                      jobs, now>>
    \/ /\ HasConfiguredDatasources(configs)
       /\ now < limit
       /\ \E legal_sources \in DiscoveryOutcomes(configs, connected) :
          \E ingested \in SUBSET legal_sources :
          \E saveOk \in BOOLEAN :
            LET doc == InitializeTracking(processed_sources, legal_sources,
                                          ingested, now)
                new_sources == NewSources(processed_sources, legal_sources)
                counted == {s \in new_sources :
                               s.full_name \in DOMAIN doc.processed_sources}
            IN  /\ processed_sources' = doc
                /\ tracking_file' = SaveTrackingData(tracking_file, doc, saveOk)
                /\ result' = Result("initialize_kb_with_existing_sources",
                                    "completed", legal_sources, counted,
                                    NoName, EmptyMap, {},
                                    new_sources, new_sources \ counted,
                                    new_sources \cap ingested)
       /\ now' = now + 1
       /\ UNCHANGED <<tasks, configs, connected, jobs>>

(***************************************************************************)
(* mark_source_as_removed                                                  *)
(***************************************************************************)
\* Python's  sub in s  on names
IsSubstring(sub, s) ==
    \E i \in 1..(Len(s) - Len(sub) + 1) : SubSeq(s, i, i + Len(sub) - 1) = sub

MatchingSources(ps, datasource_name) ==
    {k \in DOMAIN ps : IsSubstring(datasource_name, k)}

\* the clock is read only when an entry is stamped
MarkSourceAsRemoved(limit, datasource_name) ==
    /\ now < limit
    /\ \E saveOk \in BOOLEAN :
        LET removed_sources == MatchingSources(processed_sources.processed_sources,
                                               datasource_name)
            doc == [processed_sources EXCEPT !.processed_sources =
                        MarkRemoved(@, removed_sources, now)]
        IN  /\ processed_sources' = doc
            /\ tracking_file' = SaveTrackingData(tracking_file, doc, saveOk)
            /\ result' = Result("mark_source_as_removed", "marked_removed",
                                {}, {}, datasource_name, EmptyMap, {}, {}, {}, {})
            /\ now' = IF removed_sources # {} THEN now + 1 ELSE now
    /\ UNCHANGED <<tasks, configs, connected, jobs>>

(***************************************************************************)
(* Job operations                                                          *)
(***************************************************************************)
SourcesOfInstance(instance_name) ==
    {s \in AllSources : s.instance_name = instance_name}

CreateInstanceSyncJob(instance_name, sources) ==
    /\ \E listOk \in BOOLEAN, createOk \in BOOLEAN :
       \E added \in SUBSET sources :
        LET r == CreateInstanceSyncJobOp(jobs, instance_name, sources, listOk,
                                         added, createOk)
        IN  /\ jobs' = r.jobs
            /\ result' = Result("create_instance_sync_job", r.status,
                                sources, added, instance_name, EmptyMap,
                                IF listOk THEN {} ELSE {instance_name}, {}, {}, {})
    /\ UNCHANGED <<tasks, configs, connected, processed_sources, tracking_file, now>>

CreateHourlySyncJob ==
    /\ \E legal_sources \in DiscoveryOutcomes(configs, connected) :
        LET instances == GetDatasourcesByInstance(legal_sources)
        IN  IF DOMAIN instances = {}
            THEN /\ jobs' = jobs
                 /\ result' = Result("create_hourly_sync_job", "skipped", {}, {},
                                     NoName, EmptyMap, {}, {}, {}, {})
            ELSE \E listable \in SUBSET DOMAIN instances :
                 \E creatable \in SUBSET DOMAIN instances :
                 \E added \in SUBSET legal_sources :
                    LET r == CreateJobsForInstances(jobs, instances,
                                                    DOMAIN instances, listable,
                                                    added, creatable)
                    IN  /\ jobs' = r.jobs
                        /\ result' = Result("create_hourly_sync_job",
                                            "completed",
                                            legal_sources, {}, NoName,
                                            r.reports,
                                            DOMAIN instances \ listable, {}, {}, {})
    /\ UNCHANGED <<tasks, configs, connected, processed_sources, tracking_file, now>>

CleanupSyncJob ==
    /\ \E instances \in DiscoveryOutcomes(configs, connected) :
       \E listOk \in BOOLEAN, undroppable \in SUBSET jobs :
        LET r == CleanupSyncJobIfNeeded(jobs, instances, listOk, undroppable)
        IN  /\ jobs' = r.jobs
            /\ result' = Result("cleanup_sync_job_if_needed", r.status,
                                instances, {}, NoName, EmptyMap, {}, {}, {}, {})
    /\ UNCHANGED <<tasks, configs, connected, processed_sources, tracking_file, now>>

DropInstanceSyncJob(instance_name) ==
    /\ \E listOk \in BOOLEAN, dropOk \in BOOLEAN :
        LET r == DropInstanceSyncJobOp(jobs, instance_name, listOk, dropOk)
        IN  /\ jobs' = r.jobs
            /\ result' = Result("drop_instance_sync_job", r.status, {}, {},
                                instance_name, EmptyMap,
                                IF listOk THEN {} ELSE {instance_name}, {}, {}, {})
    /\ UNCHANGED <<tasks, configs, connected, processed_sources, tracking_file, now>>

(***************************************************************************)
(* The registry and the connections, written outside the manager; the      *)
(* return value of the last operation describes the world as it was, and   *)
(* is dropped when the world changes                                       *)
(***************************************************************************)
\* _store_selected_tables, or the document edited by hand
StoreSelectedTables(name, selected) ==
    /\ configs' = [n \in DOMAIN configs \cup {name} |->
                     IF n = name THEN [selected_tables |-> selected]
                     ELSE configs[n]]
    /\ result' = NoResult
    /\ UNCHANGED <<tasks, connected, processed_sources, tracking_file, jobs, now>>

\* del configs[database_name]
RemoveConfig(name) ==
    /\ name \in DOMAIN configs
    /\ configs' = [n \in DOMAIN configs \ {name} |-> configs[n]]
    /\ result' = NoResult
    /\ UNCHANGED <<tasks, connected, processed_sources, tracking_file, jobs, now>>

CreateDatabase(db) ==
    /\ db \notin connected
    /\ connected' = connected \cup {db}
    /\ result' = NoResult
    /\ UNCHANGED <<tasks, configs, processed_sources, tracking_file, jobs, now>>

DropDatabase(db) ==
    /\ db \in connected
    /\ connected' = connected \ {db}
    /\ result' = NoResult
    /\ UNCHANGED <<tasks, configs, processed_sources, tracking_file, jobs, now>>

(***************************************************************************)
(* delete_integration (api/integrations_routes.py, lines 463-560).  The    *)
(* route is a coroutine of the same event loop as the sync passes and      *)
(* awaits nothing that suspends: it starts when no pass has the loop and   *)
(* runs to its return.  dropDbOk: server.drop_database returned; an        *)
(* exception of drop_instance_sync_job is caught at line 517 and logged,   *)
(* as is one of the removal of the config at line 527.                     *)
(***************************************************************************)
DeleteIntegration(limit, database_name) ==
    /\ loop = 0
    /\ database_name \in DOMAIN configs
    /\ now < limit
    /\ \E dropDbOk \in BOOLEAN :
        IF ~dropDbOk
        THEN /\ result' = Result("delete_integration", "raised", {}, {},
                                 database_name, EmptyMap, {}, {}, {}, {})
             /\ UNCHANGED <<configs, connected, processed_sources, tracking_file,
                            jobs, now>>
        ELSE \E saveOk \in BOOLEAN, listOk \in BOOLEAN, dropOk \in BOOLEAN :
             \E configOk \in BOOLEAN :
             LET removed_sources ==
                     MatchingSources(processed_sources.processed_sources,
                                     database_name)
                 doc == [processed_sources EXCEPT !.processed_sources =
                             MarkRemoved(@, removed_sources, now)]
                 job_result == DropInstanceSyncJobOp(jobs, database_name, listOk,
                                                     dropOk)
             IN  /\ connected' = connected \ {database_name}
                 /\ processed_sources' = doc
                 /\ tracking_file' = SaveTrackingData(tracking_file, doc, saveOk)
                 /\ jobs' = job_result.jobs
                 /\ configs' = IF configOk
                               THEN [n \in DOMAIN configs \ {database_name} |->
                                       configs[n]]
                               ELSE configs
                 /\ now' = IF removed_sources # {} THEN now + 1 ELSE now
                 /\ result' = Result("delete_integration", "deleted", {}, {},
                                     database_name, EmptyMap, {}, {}, {}, {})
    /\ UNCHANGED tasks

(***************************************************************************)
(* The INSERT query of a table: insert_query_generator.py, and the column  *)
(* detection in front of it on the sync path (mindsdb_manager.py) and on   *)
(* the job path (kb_manager.py).  Column names are names like the others:  *)
(* "created_at" is <<"created", "_", "at">>.                                *)
(***************************************************************************)
\* None, where the code has a column name
NoColumn == << >>

\* the elements of a list
Range(list) == {list[i] : i \in DOMAIN list}

\* the least index of a nonempty set of indexes
First(S) == CHOOSE i \in S : \A k \in S : i <= k

\* str.lower() on the tokens the columns are written with
LowerToken(t) ==
    CASE t = "Mail" -> "mail"
      [] t = "Body" -> "body"
      [] t = "Text" -> "text"
      [] OTHER -> t

Lower(name) == [i \in DOMAIN name |-> LowerToken(name[i])]

\* the integration types generate_insert_query tells apart
SourceKinds ==
    {"email", "postgres", "pdf", "sharepoint", "dropbox", "salesforce",
     "elasticsearch", "notion", "github", "snowflake", "generic"}

\* the priority_fields each generator hands to _find_best_content_field
PriorityFields(kind) ==
    CASE kind = "email" ->
           <<<<"body">>, <<"content">>, <<"text">>, <<"message">>,
             <<"html", "_", "body">>, <<"plain", "_", "text">>,
             <<"subject">>>>
      [] kind = "postgres" ->
           <<<<"content">>, <<"contract", "_", "text">>, <<"text">>,
             <<"document", "_", "text">>, <<"description">>>>
      [] kind = "pdf" ->
           <<<<"content">>, <<"text">>,
             <<"markdown", "_", "content">>,
             <<"extracted", "_", "text">>>>
      [] kind = "sharepoint" ->
           <<<<"content">>, <<"body">>, <<"description">>,
             <<"text">>, <<"file", "_", "content">>>>
      [] kind = "dropbox" ->
           <<<<"content">>, <<"text">>, <<"file", "_", "content">>,
             <<"body">>>>
      [] kind = "salesforce" ->
           <<<<"description">>, <<"body">>, <<"content">>,
             <<"notes">>, <<"details">>>>
      [] kind = "elasticsearch" ->
           <<<<"_", "source">>, <<"content">>, <<"text">>,
             <<"body">>, <<"description">>>>
      [] kind = "notion" ->
           <<<<"content">>, <<"rich", "_", "text">>,
             <<"plain", "_", "text">>, <<"title">>, <<"text">>>>
      [] kind = "github" ->
           <<<<"content">>, <<"body">>, <<"description">>,
             <<"readme">>, <<"text">>>>
      [] kind = "snowflake" ->
           <<<<"content">>, <<"text">>, <<"description">>,
             <<"contract", "_", "text">>, <<"document", "_", "text">>>>
      [] kind = "generic" ->
           <<<<"content">>, <<"text">>, <<"body">>,
             <<"description">>, <<"document", "_", "text">>>>


\* the metadata keys a generator emits whatever the columns are, each through
\* _safe_coalesce
CoalescedFields(kind) ==
    CASE kind = "email" ->
           {<<"to", "_", "field">>, <<"from", "_", "field">>,
            <<"datetime">>, <<"subject">>, <<"message", "_", "id">>}
      [] kind = "postgres" ->
           {}
      [] kind = "pdf" ->
           {<<"filename">>, <<"file", "_", "size">>,
            <<"file", "_", "type">>, <<"upload", "_", "date">>}
      [] kind = "sharepoint" ->
           {<<"title">>, <<"author">>, <<"created">>, <<"modified">>,
            <<"file", "_", "path">>, <<"site", "_", "url">>}
      [] kind = "dropbox" ->
           {<<"name">>, <<"path", "_", "lower">>, <<"size">>,
            <<"client", "_", "modified">>,
            <<"server", "_", "modified">>}
      [] kind = "salesforce" ->
           {<<"id">>, <<"name">>, <<"account", "_", "id">>,
            <<"owner", "_", "id">>, <<"created", "_", "date">>,
            <<"last", "_", "modified", "_", "date">>, <<"stage">>}
      [] kind = "elasticsearch" ->
           {<<"_", "id">>, <<"_", "index">>, <<"_", "type">>,
            <<"_", "score">>, <<"timestamp">>}
      [] kind = "notion" ->
           {<<"id">>, <<"title">>, <<"created", "_", "time">>,
            <<"last", "_", "edited", "_", "time">>,
            <<"created", "_", "by">>,
            <<"last", "_", "edited", "_", "by">>}
      [] kind = "github" ->
           {<<"name">>, <<"path">>, <<"sha">>, <<"size">>, <<"url">>,
            <<"html", "_", "url">>}
      [] kind = "snowflake" ->
           {<<"id">>, <<"name">>, <<"created", "_", "at">>,
            <<"updated", "_", "at">>, <<"status">>, <<"category">>}
      [] kind = "generic" ->
           {}

\* the metadata keys a generator emits only for columns that exist
\* (common_fields of the postgres generator, id of the generic one)
CommonFields(kind) ==
    CASE kind = "postgres" ->
           {<<"id">>, <<"name">>, <<"title">>,
            <<"created", "_", "at">>, <<"updated", "_", "at">>,
            <<"status">>, <<"category">>}
      [] kind = "generic" -> {<<"id">>}
      [] OTHER -> {}

\* the name a generator writes for content_column when it has no field
DefaultContentColumn(kind) ==
    CASE kind = "email" -> <<"body">>
      [] kind = "salesforce" -> <<"description">>
      [] kind = "elasticsearch" -> <<"_", "source">>
      [] OTHER -> <<"content">>

\* lines 613-634
FindBestContentField(available_columns, priority_fields) ==
    LET exact == {i \in DOMAIN priority_fields :
                     priority_fields[i] \in Range(available_columns)}
        partial == {i \in DOMAIN priority_fields :
                       \E j \in DOMAIN available_columns :
                          IsSubstring(Lower(priority_fields[i]),
                                      Lower(available_columns[j]))}
    IN  IF available_columns = << >> THEN priority_fields[1]
        ELSE IF exact # {} THEN priority_fields[First(exact)]
        ELSE IF partial # {}
        THEN LET field == Lower(priority_fields[First(partial)])
             IN  available_columns[First({j \in DOMAIN available_columns :
                        IsSubstring(field, Lower(available_columns[j]))})]
        ELSE priority_fields[1]

\* lines 636-641
SafeCoalesce(field_name, available_columns) ==
    IF field_name \in Range(available_columns)
    THEN <<"COALESCE", field_name>>
    ELSE <<"''", NoColumn>>

\* lines 651-664: the sentinel, or the CASE expression over the field
NoContentAvailable == <<"'No content available'", NoColumn>>

GenerateContentExtractionClause(content_field) ==
    IF content_field = NoColumn THEN NoContentAvailable
    ELSE <<"CASE", content_field>>

source_table == <<"source", "_", "table">>
content_column == <<"content", "_", "column">>
data_type == <<"data", "_", "type">>

\* the metadata_fields of a generator, key by key
MetadataFields(kind, full_name, content_field, available_columns) ==
    LET common == CommonFields(kind) \cap Range(available_columns)
        keys == {source_table, content_column, data_type}
                   \cup CoalescedFields(kind) \cup common
    IN  [key \in keys |->
            CASE key = source_table -> <<"'", full_name>>
              [] key = content_column ->
                   <<"'", IF content_field = NoColumn
                          THEN DefaultContentColumn(kind) ELSE content_field>>
              [] key = data_type -> <<"'", <<kind>>>>
              [] OTHER -> SafeCoalesce(key, available_columns)]

NoMetadata == << >>

\* lines 23-107: the generator an integration type is routed to
GeneratorOf(integration_type) ==
    CASE integration_type = "postgresql" -> "postgres"
      [] integration_type \in {"file", "upload"} -> "pdf"
      [] integration_type \in SourceKinds -> integration_type
      [] OTHER -> "generic"

\* generate_insert_query and the generator it routes to: the field the
\* content is read from, the content expression and the metadata object
GenerateInsertQuery(integration_type, full_name, contract_text_column, available_columns, include_metadata) ==
    LET kind == GeneratorOf(integration_type)
        content_field ==
            IF contract_text_column = NoColumn
            THEN FindBestContentField(available_columns, PriorityFields(kind))
            ELSE contract_text_column
    IN  [kind |-> kind,
         content_field |-> content_field,
         content |-> GenerateContentExtractionClause(content_field),
         metadata |-> IF include_metadata
                      THEN MetadataFields(kind, full_name, content_field,
                                          available_columns)
                      ELSE NoMetadata]

\* the three steps both detections take over the columns of a table: exact
\* name, name inside a column, keyword inside a column
PriorityDetection(columns, priority_names, keywords) ==
    LET exact == {i \in DOMAIN priority_names :
                     priority_names[i] \in Range(columns)}
        partial == {i \in DOMAIN priority_names :
                       \E j \in DOMAIN columns :
                          IsSubstring(priority_names[i], Lower(columns[j]))}
        fallback == {j \in DOMAIN columns :
                        \E keyword \in keywords :
                           IsSubstring(keyword, Lower(columns[j]))}
    IN  IF columns = << >> THEN NoColumn
        ELSE IF exact # {} THEN priority_names[First(exact)]
        ELSE IF partial # {}
        THEN columns[First({j \in DOMAIN columns :
                 IsSubstring(priority_names[First(partial)],
                             Lower(columns[j]))})]
        ELSE IF fallback # {} THEN columns[First(fallback)]
        ELSE NoColumn

\* mindsdb_manager.py, lines 150-191
DetectContractTextColumn(columns) ==
    PriorityDetection(columns,
        <<<<"content">>, <<"contract", "_", "text">>, <<"text">>,
          <<"document", "_", "text">>, <<"pdf", "_", "content">>,
          <<"contract", "_", "content">>, <<"full", "_", "text">>,
          <<"body">>, <<"document", "_", "content">>,
          <<"contract", "_", "url">>, <<"pdf", "_", "url">>,
          <<"document", "_", "url">>, <<"url">>, <<"link">>,
          <<"file", "_", "path">>, <<"document", "_", "path">>,
          <<"pdf", "_", "path">>>>,
        {<<"text">>, <<"content">>, <<"url">>, <<"pdf">>, <<"document">>})

\* kb_manager.py, lines 376-409
DetectContractTextColumnForSource(columns) ==
    PriorityDetection(columns,
        <<<<"content">>, <<"contract", "_", "text">>, <<"text">>,
          <<"document", "_", "text">>, <<"pdf", "_", "content">>,
          <<"contract", "_", "content">>, <<"full", "_", "text">>,
          <<"body">>, <<"document", "_", "content">>,
          <<"contract", "_", "url">>, <<"pdf", "_", "url">>,
          <<"document", "_", "url">>, <<"url">>, <<"link">>,
          <<"file", "_", "path">>, <<"document", "_", "path">>,
          <<"pdf", "_", "path">>, <<"subject">>>>,
        {<<"text">>, <<"content">>, <<"url">>, <<"pdf">>, <<"document">>,
         <<"subject">>, <<"body">>})

\* kb_manager.py, lines 547-598: the type is read off the instance name
DetectSourceIntegrationType(instance_name) ==
    LET Has(word) == IsSubstring(<<word>>, Lower(instance_name))
    IN  CASE Has("email") \/ Has("smtp") -> "email"
          [] Has("postgresql") \/ Has("postgres") -> "postgres"
          [] Has("sharepoint") -> "sharepoint"
          [] Has("dropbox") -> "dropbox"
          [] Has("salesforce") -> "salesforce"
          [] Has("elasticsearch") \/ Has("elastic") -> "elasticsearch"
          [] Has("notion") -> "notion"
          [] Has("github") -> "github"
          [] Has("snowflake") -> "snowflake"
          [] Has("files") \/ Has("upload") -> "pdf"
          [] OTHER -> "generic"

(***************************************************************************)
(* The tables the queries are generated for                                *)
(***************************************************************************)
MaxColumns == 3

email_1 == <<"email", "_1">>
postgres == <<"postgres">>

\* instances whose names name their type, and one whose name does not
QueryInstances == {email_1, postgres, crm}

\* column names a table may have
ColumnPool ==
    {<<"id">>, <<"body">>, <<"created", "_", "at">>, <<"text">>, <<"message">>,
     <<"Mail", "_", "Body">>, <<"url">>, <<"subject">>, <<"amount">>}

\* SHOW COLUMNS of a table: up to MaxColumns different columns, in order
ColumnLists ==
    UNION {{list \in [1..n -> ColumnPool] :
               \A i, j \in 1..n : list[i] = list[j] => i = j} : n \in 0..MaxColumns}

\* what a query for the columns gets: the columns, or nothing when the
\* query raises
Described(columns) == {columns, << >>}

Query(op, integration_type, full_name, columns, described, contract_text_column, available_columns, include_metadata) ==
    LET q == GenerateInsertQuery(integration_type, full_name, contract_text_column,
                                 available_columns, include_metadata)
    IN  [op |-> op, integration_type |-> integration_type, kind |-> q.kind,
         columns |-> columns, described |-> described,
         contract_text_column |-> contract_text_column,
         available_columns |-> available_columns,
         include_metadata |-> include_metadata,
         content_field |-> q.content_field, content |-> q.content,
         metadata |-> q.metadata]

NoQuery ==
    [op |-> "none", integration_type |-> "none", kind |-> "none",
     columns |-> << >>, described |-> << >>, contract_text_column |-> NoColumn,
     available_columns |-> << >>, include_metadata |-> FALSE,
     content_field |-> NoColumn, content |-> <<"none", NoColumn>>,
     metadata |-> NoMetadata]

\* a table whose query has not been generated yet
Table(columns) == [NoQuery EXCEPT !.columns = columns]

IsTable == insert_query.op = "none"

\* insert_query_generator.py, lines 23-107, called without a column
CallGenerateInsertQuery(integration_type, include_metadata) ==
    /\ IsTable
    /\ LET available_columns == insert_query.columns
       IN  insert_query' = Query("generate_insert_query", integration_type,
                                 crm \o <<".", "deals">>, available_columns,
                                 available_columns, NoColumn,
                                 available_columns, include_metadata)
    /\ UNCHANGED <<configs, connected, processed_sources, tracking_file, jobs, now,
                   result, handlers, loop>>

\* the sync path: kb_manager.py 684-694 and mindsdb_manager.py 335-395.  The
\* column is detected from SHOW COLUMNS and handed to the generator, the
\* columns are not
BulkInsertQuery(instance_name) ==
    /\ IsTable
    /\ LET columns == insert_query.columns
       IN  \E described \in Described(columns) :
         insert_query' = Query("bulk_insert_contracts_from_datasource",
                               DetectSourceIntegrationType(instance_name),
                               instance_name \o <<".", "deals">>, columns,
                               described, DetectContractTextColumn(described),
                               << >>, TRUE)
    /\ UNCHANGED <<configs, connected, processed_sources, tracking_file, jobs, now,
                   result, handlers, loop>>

\* the job path: kb_manager.py 913-929, 304-414 and 489-545.  The column is
\* detected from one SHOW COLUMNS, the generator gets the columns of another
JobInsertQuery(instance_name) ==
    /\ IsTable
    /\ LET columns == insert_query.columns
       IN
       \E described \in Described(columns) :
       \E available_columns \in Described(columns) :
         insert_query' = Query("create_instance_sync_job",
                               DetectSourceIntegrationType(instance_name),
                               instance_name \o <<".", "deals">>, columns,
                               described,
                               DetectContractTextColumnForSource(described),
                               available_columns, TRUE)
    /\ UNCHANGED <<configs, connected, processed_sources, tracking_file, jobs, now,
                   result, handlers, loop>>

Init ==
    /\ configs = [n \in {} |-> [selected_tables |-> None]]
    /\ connected = UserDatabases
    /\ processed_sources = DefaultTracking
    /\ tracking_file = DefaultTracking
    /\ jobs = {}
    /\ now = 1
    /\ result = NoResult
    /\ handlers = [h \in Handlers |-> Idle]
    /\ loop = 0
    /\ insert_query = NoQuery

Registry(names) ==
    \/ \E name \in names : \E selected \in SelectionsFor(name) :
          StoreSelectedTables(name, selected)
    \/ \E name \in names : RemoveConfig(name)

Connections ==
    \/ \E db \in UserDatabases : CreateDatabase(db)
    \/ \E db \in UserDatabases : DropDatabase(db)

\* Discovery over every registry and every set of connections
NextDiscovery ==
    \/ Registry(ConfigurableNames)
    \/ Connections
    \/ GetKbStatus

SpecDiscovery == Init /\ [][NextDiscovery]_vars

\* the tracking operations of the manager
NextSync ==
    \/ Registry(UserDatabases)
    \/ SyncAllSources(MaxClock)
    \/ InitializeKbWithExistingSources(MaxClock)
    \/ \E name \in UserDatabases : MarkSourceAsRemoved(MaxClock, name)

SpecSync == Init /\ [][NextSync]_vars

\* the job operations of the manager
NextJobs ==
    \/ Registry(UserDatabases)
    \/ \E name \in UserDatabases : \E sources \in SUBSET SourcesOfInstance(name) :
          CreateInstanceSyncJob(name, sources)
    \/ CreateHourlySyncJob
    \/ CleanupSyncJob
    \/ \E name \in UserDatabases : DropInstanceSyncJob(name)

SpecJobs == Init /\ [][NextJobs]_vars

\* the tracking operations for one configurable instance, with room for
\* three passes
NextSyncDeep ==
    \/ Registry({crm_1})
    \/ SyncAllSources(DeepClock)
    \/ InitializeKbWithExistingSources(DeepClock)
    \/ \E name \in UserDatabases : MarkSourceAsRemoved(DeepClock, name)

SpecSyncDeep == Init /\ [][NextSyncDeep]_vars

\* sync passes of concurrent requests, step by step
NextHandlers ==
    \/ Registry({crm})
    \/ \E h \in Handlers : HandlerBegin(h, MaxClock)
    \/ \E h \in Handlers : HandlerKbCheck(h)
    \/ \E h \in Handlers : HandlerBulkInsert(h)
    \/ \E h \in Handlers : HandlerUpdateAgent(h)
    \/ \E h \in Handlers : HandlerCleanup(h)

SpecHandlers == Init /\ [][NextHandlers]_vars

\* sync passes, some of them cut short inside the save
NextCrash ==
    \/ Registry({crm_1})
    \/ SyncAllSources(MaxClock)
    \/ CrashDuringSaveAndRestart(MaxClock)

SpecCrash == Init /\ [][NextCrash]_vars

\* the sync pass together with the operations that create jobs, for one
\* configurable instance
NextReconcile ==
    \/ Registry({crm_1})
    \/ SyncAllSources(MaxClock)
    \/ CreateHourlySyncJob
    \/ \E sources \in SUBSET SourcesOfInstance(crm_1) :
          CreateInstanceSyncJob(crm_1, sources)

SpecReconcile == Init /\ [][NextReconcile]_vars

\* sync passes step by step, and the routes that create and delete an
\* integration, which run when no pass has the event loop
NextDelete ==
    \/ loop = 0 /\ \E selected \in SelectionsFor(crm) :
                      StoreSelectedTables(crm, selected)
    \/ loop = 0 /\ CreateDatabase(crm)
    \/ loop = 0 /\ \E sources \in SUBSET SourcesOfInstance(crm) :
                      CreateInstanceSyncJob(crm, sources)
    \/ \E h \in Handlers : HandlerBegin(h, MaxClock)
    \/ \E h \in Handlers : HandlerKbCheck(h)
    \/ \E h \in Handlers : HandlerBulkInsert(h)
    \/ \E h \in Handlers : HandlerUpdateAgent(h)
    \/ \E h \in Handlers : HandlerCleanup(h)
    \/ DeleteIntegration(MaxClock, crm)

SpecDelete == Init /\ [][NextDelete]_vars

\* the queries generated for a table, directly and on the two paths
InitQuery ==
    /\ configs = [n \in {} |-> [selected_tables |-> None]]
    /\ connected = UserDatabases
    /\ processed_sources = DefaultTracking
    /\ tracking_file = DefaultTracking
    /\ jobs = {}
    /\ now = 1
    /\ result = NoResult
    /\ handlers = [h \in Handlers |-> Idle]
    /\ loop = 0
    /\ \E columns \in ColumnLists : insert_query = Table(columns)

NextQuery ==
    \/ \E integration_type \in SourceKinds : \E include_metadata \in BOOLEAN :
          CallGenerateInsertQuery(integration_type, include_metadata)
    \/ \E instance_name \in QueryInstances : BulkInsertQuery(instance_name)
    \/ \E instance_name \in QueryInstances : JobInsertQuery(instance_name)

SpecQuery == InitQuery /\ [][NextQuery]_vars

(***************************************************************************)
(* Properties                                                              *)
(***************************************************************************)
Tracked == processed_sources.processed_sources

\* a step of a sync pass or of an initialize pass, skipped or not
IsPassStep(op) == result' # result /\ result'.op = op

CompletedSync(r) == r.op = "sync_all_sources" /\ r.status = "completed"

\* the second of two sync passes with nothing in between
ConsecutivePasses ==
    /\ CompletedSync(result)
    /\ CompletedSync(result')
    /\ processed_sources'.sync_count = processed_sources.sync_count + 1

\* C1: no operation deletes a tracked entry: every key of the tracking
\* document is still a key after any step, and an entry that becomes
\* removed keeps its first_processed and last_synced
C1_EntriesNeverDeleted ==
    [][\A k \in DOMAIN Tracked :
        /\ k \in DOMAIN Tracked'
        /\ (Tracked'[k].status = "removed" /\ Tracked[k].status # "removed")
            => Tracked'[k] = [Tracked[k] EXCEPT !.status = "removed",
                                                !.removed_date = now]]_vars

C1_Witness ==
    \E k \in DOMAIN Tracked :
        /\ Tracked[k].status = "removed"
        /\ Tracked[k].removed_date > Tracked[k].last_synced

\* C2 as claimed: after the second of two consecutive completed passes with
\* Discovery outputs D1 then D2, every unit of D1 \ D2 is removed, every
\* unit of D2 \ D1 is processed and every unit of D1 \cap D2 is processed
\* with the last_synced of the second pass
C2_ConvergenceAsClaimed ==
    [][ConsecutivePasses =>
        LET D1 == FullNames(result.sources)
            D2 == FullNames(result'.sources)
        IN  /\ \A u \in D1 \ D2 :
                u \in DOMAIN Tracked' /\ Tracked'[u].status = "removed"
            /\ \A u \in D2 \ D1 :
                u \in DOMAIN Tracked' /\ Tracked'[u].status = "processed"
            /\ \A u \in D1 \cap D2 :
                /\ u \in DOMAIN Tracked'
                /\ Tracked'[u].status = "processed"
                /\ Tracked'[u].last_synced = now]_vars

\* C2 amended: the same for the units whose ingestion succeeded: a unit of
\* D1 \ D2 ingested by the first pass is removed, a unit of D2 ingested by
\* the second pass is processed with the last_synced of the second pass,
\* and a unit of D1 \cap D2 ingested by the first pass only stays processed
C2_ConvergenceOfIngestedUnits ==
    [][ConsecutivePasses =>
        LET D1 == FullNames(result.sources)
            D2 == FullNames(result'.sources)
            ok1 == FullNames(result.processed)
            ok2 == FullNames(result'.processed)
        IN  /\ \A u \in (D1 \ D2) \cap ok1 :
                u \in DOMAIN Tracked' /\ Tracked'[u].status = "removed"
            /\ \A u \in D2 \cap ok2 :
                /\ u \in DOMAIN Tracked'
                /\ Tracked'[u].status = "processed"
                /\ Tracked'[u].last_synced = now
            /\ \A u \in ((D1 \cap D2) \cap ok1) \ ok2 :
                /\ u \in DOMAIN Tracked'
                /\ Tracked'[u].status = "processed"
                /\ Tracked'[u].last_synced = Tracked[u].last_synced]_vars

\* two passes have run, at last_sync - 1 and at last_sync: one unit went
\* from processed to removed, one is new and one was ingested by both
C2_Witness ==
    /\ CompletedSync(result)
    /\ LET t == processed_sources.last_sync
       IN  \E a, b, c \in DOMAIN Tracked :
            /\ Tracked[a] = Entry(t - 1, t - 1, "removed", t)
            /\ Tracked[b] = Entry(t, t, "processed", NoTime)
            /\ Tracked[c] = Entry(t - 1, t, "processed", NoTime)
            /\ {a, b, c} \subseteq FullNames(AllSources)
            /\ {b, c} = FullNames(result.processed)

NoSelectedTables ==
    \A name \in DOMAIN configs : configs[name].selected_tables \in {None, {}}

\* C3: when no instance of the registry has a non-empty selected-table
\* list, a sync pass and an initialize pass return skipped and leave the
\* tracking document and its file as they were
C3_SkippedWithoutConfiguration ==
    [][(NoSelectedTables /\ (\/ IsPassStep("sync_all_sources")
                             \/ IsPassStep("initialize_kb_with_existing_sources")))
        => /\ result'.status = "skipped"
           /\ UNCHANGED <<processed_sources, tracking_file, jobs>>]_vars

C3_Witness ==
    /\ result.op \in {"sync_all_sources", "initialize_kb_with_existing_sources"}
    /\ result.status = "skipped"
    /\ NoSelectedTables
    /\ DOMAIN configs # {}
    /\ \E k \in DOMAIN Tracked : Tracked[k].status = "processed"

\* table t is not (or no longer) in the selected tables of instance i
Deselected(i, t) ==
    /\ i \in DOMAIN configs
    /\ configs[i].selected_tables # None
    /\ t \notin configs[i].selected_tables

\* C4 as claimed: a sync pass run when table t is not in the selected
\* tables of instance i leaves a tracked entry i.t present and removed
C4_DeselectedIsRemovedAsClaimed ==
    [][IsPassStep("sync_all_sources") =>
        \A i \in DOMAIN configs : \A t \in Tables :
            (Deselected(i, t) /\ FullName(i, t) \in DOMAIN Tracked)
                => /\ FullName(i, t) \in DOMAIN Tracked'
                   /\ Tracked'[FullName(i, t)].status = "removed"]_vars

\* C4 amended: the same when some instance of the registry still has a
\* non-empty selected-table list
C4_DeselectedIsRemoved ==
    [][(IsPassStep("sync_all_sources") /\ ~NoSelectedTables) =>
        \A i \in DOMAIN configs : \A t \in Tables :
            (Deselected(i, t) /\ FullName(i, t) \in DOMAIN Tracked)
                => /\ FullName(i, t) \in DOMAIN Tracked'
                   /\ Tracked'[FullName(i, t)].status = "removed"]_vars

C4_Witness ==
    /\ result.op = "sync_all_sources"
    /\ \E i \in DOMAIN configs : \E t \in Tables :
        /\ Deselected(i, t)
        /\ FullName(i, t) \in DOMAIN Tracked
        /\ Tracked[FullName(i, t)].status = "removed"
        /\ Tracked[FullName(i, t)].removed_date = processed_sources.last_sync
        /\ Tracked[FullName(i, t)].last_synced < processed_sources.last_sync

\* C5: every source Discovery returns belongs to an instance that is not a
\* system database and has a config, and names a table of that config's
\* selected tables
C5_DiscoveryRespectsSelection ==
    result.op = "get_kb_status" =>
        \A s \in result.sources :
            /\ s.instance_name \notin
                 {<<"mindsdb">>, <<"information_schema">>, <<"files">>}
            /\ s.instance_name \in DOMAIN configs
            /\ configs[s.instance_name].selected_tables # None
            /\ s.table_name \in configs[s.instance_name].selected_tables

\* Discovery returned crm.deals while crm.contacts is exposed and not
\* selected, files is configured and crm_1 has no config
C5_Witness ==
    /\ result.op = "get_kb_status"
    /\ result.sources = {Source(crm, "deals")}
    /\ files \in DOMAIN configs
    /\ crm_1 \notin DOMAIN configs
    /\ crm_1 \in connected

JobsOfInstance(js, instance_name) == {j \in js : j.instance = instance_name}

\* C6: at most one job per instance, named kb_sync_ followed by the
\* instance name, whatever job operations have run and whichever of their
\* job listings failed
C6_OneJobPerInstance ==
    /\ \A j \in jobs : j.name = <<"kb_sync_">> \o j.instance
    /\ \A j1, j2 \in jobs : j1.instance = j2.instance => j1 = j2

\* both instances have their job, and a creation for one of them went on to
\* create the job because the listing failed
C6_Witness ==
    /\ Cardinality(jobs) = 2
    /\ result.op = "create_instance_sync_job"
    /\ result.unlisted = {result.instance}
    /\ result.status = "error"
    /\ JobsOfInstance(jobs, result.instance) # {}

\* C7 as claimed: the second of two consecutive completed passes with the
\* same Discovery output and the same ingestion outcomes keeps the keys and,
\* of every entry, the status, first_processed and removal timestamp, and
\* creates no job
C7_SecondPassChangesOnlyLastSynced ==
    [][(/\ ConsecutivePasses
        /\ result'.sources = result.sources
        /\ result'.processed = result.processed) =>
        /\ DOMAIN Tracked' = DOMAIN Tracked
        /\ \A k \in DOMAIN Tracked :
            /\ Tracked'[k].status = Tracked[k].status
            /\ Tracked'[k].first_processed = Tracked[k].first_processed
            /\ Tracked'[k].removed_date = Tracked[k].removed_date
        /\ JobNames(jobs') \subseteq JobNames(jobs)]_vars

\* the second of two create_hourly_sync_job calls with nothing in between
\* and the same Discovery output
ConsecutiveReconciles ==
    /\ result.op = "create_hourly_sync_job"
    /\ result'.op = "create_hourly_sync_job"
    /\ result.status = "completed"
    /\ result'.status = "completed"
    /\ result'.sources = result.sources

\* C8 as claimed: the second call changes no job and reports every
\* instance as already_exists
C8_SecondReconcileAsClaimed ==
    [][ConsecutiveReconciles =>
        /\ jobs' = jobs
        /\ \A name \in DOMAIN result'.reports :
            result'.reports[name] = "already_exists"]_vars

\* C8 amended: the second call keeps every job, creates one only for an
\* instance that has none, and reports an instance that has its job as
\* already_exists when the job listing succeeds and as error when it fails
C8_SecondReconcileAddsNoDuplicate ==
    [][ConsecutiveReconciles =>
        /\ jobs \subseteq jobs'
        /\ \A j \in jobs' \ jobs : JobsOfInstance(jobs, j.instance) = {}
        /\ \A name \in DOMAIN result'.reports :
            JobsOfInstance(jobs, name) # {} =>
                result'.reports[name] =
                    IF name \in result'.unlisted THEN "error"
                    ELSE "already_exists"]_vars

\* a second call that found both jobs, with one listing failing
C8_Witness ==
    /\ result.op = "create_hourly_sync_job"
    /\ DOMAIN result.reports = {crm, crm_1}
    /\ result.reports[crm] = "already_exists"
    /\ result.reports[crm_1] = "error"
    /\ result.unlisted = {crm_1}
    /\ Cardinality(jobs) = 2

\* C9 as claimed: a create_instance_sync_job call with sources, for an
\* instance without a job, in which no query could be added leaves the
\* instance without a job and returns failed
C9_NoQueryMeansFailed ==
    [][(/\ result' # result
        /\ result'.op = "create_instance_sync_job"
        /\ result'.sources # {}
        /\ result'.processed = {}
        /\ JobsOfInstance(jobs, result'.instance) = {}) =>
        /\ JobsOfInstance(jobs', result'.instance) = {}
        /\ result'.status = "failed"]_vars

\* the latest pass changed the set of units: it ingested a unit for the
\* first time or marked one removed
PassChangedUnits ==
    \E k \in DOMAIN Tracked :
        \/ Tracked[k].first_processed = processed_sources.last_sync
        \/ Tracked[k].removed_date = processed_sources.last_sync

\* C10 as claimed: after a completed pass that changed the set of units,
\* every instance with a discovered unit has a job
C10_JobsReconciledAfterPass ==
    (CompletedSync(result) /\ PassChangedUnits) =>
        \A s \in result.sources : JobsOfInstance(jobs, s.instance_name) # {}

\* C11 as claimed: when cleanup_sync_job_if_needed has returned a status
\* other than error, every job named kb_sync_... belongs to an instance of
\* the registry
C11_NoOrphanAfterCleanup ==
    (result.op = "cleanup_sync_job_if_needed" /\ result.status # "error") =>
        \A j \in jobs :
            StartsWith(j.name, <<"kb_sync_">>) => j.instance \in DOMAIN configs

\* a call of drop_instance_sync_job
IsDropStep == result' # result /\ result'.op = "drop_instance_sync_job"

\* C12 as claimed: drop_instance_sync_job(i) removes the job kb_sync_i and
\* no other and returns dropped; when there is no such job it returns
\* not_found and changes no job
C12_DropAsClaimed ==
    [][IsDropStep =>
        LET job_name == <<"kb_sync_">> \o result'.instance
        IN  IF job_name \in JobNames(jobs)
            THEN /\ jobs' = {j \in jobs : j.name # job_name}
                 /\ result'.status = "dropped"
            ELSE /\ jobs' = jobs
                 /\ result'.status = "not_found"]_vars

\* C12 amended: a call that returns dropped has removed the job kb_sync_i
\* and no other; a call that returns not_found found no such job and
\* changed none; a call raises only when the job listing fails or when the
\* job exists and its drop fails, and then changes no job
C12_DropRemovesExactlyOneJob ==
    [][IsDropStep =>
        LET i == result'.instance
            job_name == <<"kb_sync_">> \o i
            exists == job_name \in JobNames(jobs)
        IN  /\ result'.status \in {"dropped", "not_found", "raised"}
            /\ result'.status = "dropped" =>
                  exists /\ jobs' = {j \in jobs : j.name # job_name}
            /\ result'.status = "not_found" => ~exists /\ jobs' = jobs
            /\ result'.status = "raised" =>
                  jobs' = jobs /\ (i \in result'.unlisted \/ exists)
            /\ (~exists /\ i \notin result'.unlisted) =>
                  result'.status = "not_found"]_vars

\* the job of one instance was dropped and the job of the other is in place
C12_Witness ==
    /\ result.op = "drop_instance_sync_job"
    /\ result.status = "dropped"
    /\ JobsOfInstance(jobs, result.instance) = {}
    /\ jobs # {}

\* the entry of key k is one of instance i: the key is i.<table>
BelongsTo(k, i) == StartsWith(k, i \o <<".">>)

\* C13 as claimed: mark_source_as_removed(i), for an instance i that has
\* entries, sets status removed on the entries of instance i and leaves
\* every other entry as it was
C13_MarksOnlyTheInstance ==
    [][(/\ result' # result
        /\ result'.op = "mark_source_as_removed"
        /\ \E k \in DOMAIN Tracked : BelongsTo(k, result'.instance)) =>
        \A k \in DOMAIN Tracked :
            IF BelongsTo(k, result'.instance)
            THEN Tracked'[k].status = "removed"
            ELSE Tracked'[k] = Tracked[k]]_vars

\* a pass that got past the configuration check
IsRunningPassStep(op) == IsPassStep(op) /\ result'.status # "skipped"

\* the entries a pass owes to the units it ingested: each has an entry
\* stamped with the time of the pass
IngestedAreUpserted ==
    \A s \in result'.ingested :
        /\ s.full_name \in DOMAIN Tracked'
        /\ Tracked'[s.full_name].last_synced = processed_sources'.last_sync

\* C14 as claimed: a sync pass or an initialize pass in which the ingestion
\* of some unit raises upserts the entry of every unit whose ingestion
\* succeeded and returns completed
C14_FailureIsIsolated ==
    [][((\/ IsRunningPassStep("sync_all_sources")
         \/ IsRunningPassStep("initialize_kb_with_existing_sources"))
        /\ result'.ingested # result'.attempted) =>
        /\ IngestedAreUpserted
        /\ result'.status = "completed"]_vars

\* a pass that returned completed
IsCompletedPassStep ==
    /\ \/ IsRunningPassStep("sync_all_sources")
       \/ IsRunningPassStep("initialize_kb_with_existing_sources")
    /\ result'.status = "completed"

\* C15 as claimed: the result of a completed pass has every unit whose
\* ingestion failed in its error list, and the units it counts as processed
\* and those it lists as errors add up to the units it attempted
C15_FailuresAreReported ==
    [][IsCompletedPassStep =>
        /\ (result'.attempted \ result'.ingested) \subseteq result'.errors
        /\ Cardinality(result'.processed) + Cardinality(result'.errors) =
              Cardinality(result'.attempted)]_vars

\* C16 as claimed: sync_all_sources always returns a result, skipped or
\* completed, whichever of the unit ingestions, the job cleanup and the
\* agent refresh fail
C16_SyncNeverRaises ==
    result.op = "sync_all_sources" => result.status \in {"completed", "skipped"}

\* the write of the tracking document failed in this step: the file is not
\* the document the manager holds
SaveFailed == tracking_file' # processed_sources'

\* C17 as claimed: a sync pass or a mark_source_as_removed call whose write
\* of the tracking document fails does not return completed or
\* marked_removed, and leaves the document the manager holds as it was
C17_PersistFailureIsReported ==
    [][((\/ IsRunningPassStep("sync_all_sources")
         \/ IsPassStep("mark_source_as_removed"))
        /\ SaveFailed) =>
        /\ result'.status \notin {"completed", "marked_removed"}
        /\ processed_sources' = processed_sources]_vars

\* C18 as claimed: after the process stopped inside a save and the service
\* was started again, the tracking file is a complete document and every
\* entry the file held before the save is loaded
C18_CrashKeepsDurableEntries ==
    [][(result' # result /\ result'.op = "__init__" /\ IsDocument(tracking_file)) =>
        /\ IsDocument(tracking_file')
        /\ \A k \in DOMAIN tracking_file.processed_sources :
              k \in DOMAIN processed_sources'.processed_sources]_vars

\* C20 as claimed: the initialize pass goes through exactly the discovered
\* units whose entry is not processed: those without an entry and those
\* whose entry is removed
C20_InitializeTakesUnprocessed ==
    [][IsRunningPassStep("initialize_kb_with_existing_sources") =>
        result'.attempted =
            {s \in result'.sources :
                \/ s.full_name \notin DOMAIN Tracked
                \/ Tracked[s.full_name].status # "processed"}]_vars

InProgress == {h \in Handlers : handlers[h].pc # "idle"}

\* C19: no two sync passes are in progress at once: between the first and
\* the last step of a pass no other pass takes a step, so the entries of a
\* unit are read and written by one pass at a time
C19_PassesDoNotOverlap == Cardinality(InProgress) <= 1

\* a pass is in the middle of its units: it has written the entry of one
\* and has another to go
C19_Witness ==
    \E h \in Handlers :
        /\ handlers[h].pc = "bulk_insert_contracts_from_datasource"
        /\ handlers[h].done # {}
        /\ handlers[h].todo # {}
        /\ loop = h
        /\ \E s \in handlers[h].done :
              Tracked[s.full_name].last_synced = handlers[h].t

\* C21 as claimed: after an initialize pass, every unit without an entry
\* that the pass ingested has an entry with status processed
C21_InitializeRecordsIngested ==
    [][IsRunningPassStep("initialize_kb_with_existing_sources") =>
        \A s \in result'.ingested :
            /\ s.full_name \in DOMAIN Tracked'
            /\ Tracked'[s.full_name].status = "processed"]_vars

C23_FirstProcessedIsKept ==
    [][/\ \A k \in DOMAIN Tracked :
            Tracked'[k].first_processed = Tracked[k].first_processed
       /\ IsRunningPassStep("sync_all_sources") =>
            \A s \in result'.ingested :
                Tracked'[s.full_name].last_synced = processed_sources'.last_sync]_vars

\* the third pass re-ingested a unit the first pass had recorded
C23_Witness ==
    /\ result.op = "sync_all_sources"
    /\ processed_sources.sync_count = 3
    /\ \E s \in result.ingested :
        /\ Tracked[s.full_name].first_processed = 1
        /\ Tracked[s.full_name].last_synced = 3

\* C24 as claimed: when create_instance_sync_job is called for an instance
\* whose job exists, with the instance's current unit list, the job's
\* queries afterwards are those of that unit list
C24_JobCoversCurrentUnits ==
    [][(/\ result' # result
        /\ result'.op = "create_instance_sync_job"
        /\ result'.status = "already_exists") =>
        \A j \in JobsOfInstance(jobs', result'.instance) :
            j.queries = FullNames(result'.sources)]_vars

(***************************************************************************)
(* C25: with no column handed in by the caller, the content column of the  *)
(* query for a table is the one the priority list of the table's source    *)
(* kind gives: the first priority name that is one of the columns, or, if  *)
(* there is none, a column that contains the first priority name contained *)
(* in some column, whatever the letter case.  On the sync path and on the  *)
(* job path, for every kind and column list.                               *)
(***************************************************************************)
ExactMatches(kind, columns) ==
    {i \in DOMAIN PriorityFields(kind) : PriorityFields(kind)[i] \in Range(columns)}

SubstringMatches(kind, columns) ==
    {i \in DOMAIN PriorityFields(kind) :
        \E j \in DOMAIN columns :
           IsSubstring(Lower(PriorityFields(kind)[i]), Lower(columns[j]))}

ResolvedByPriority(kind, columns) ==
    IF ExactMatches(kind, columns) # {}
    THEN {PriorityFields(kind)[First(ExactMatches(kind, columns))]}
    ELSE {columns[j] : j \in {j \in DOMAIN columns :
             IsSubstring(Lower(PriorityFields(kind)[First(SubstringMatches(kind, columns))]),
                         Lower(columns[j]))}}

OnIngestionPath ==
    /\ insert_query.op \in {"bulk_insert_contracts_from_datasource",
                            "create_instance_sync_job"}
    /\ insert_query.described = insert_query.columns
    /\ insert_query.op = "create_instance_sync_job"
          => insert_query.available_columns = insert_query.columns

C25_ContentColumnByKindPriority ==
    (OnIngestionPath /\ SubstringMatches(insert_query.kind, insert_query.columns) # {})
        => insert_query.content_field
               \in ResolvedByPriority(insert_query.kind, insert_query.columns)

(***************************************************************************)
(* C26: when generate_insert_query is given no column and no priority name *)
(* of the kind is, or is contained in, one of the available columns, no    *)
(* content column is resolved (None) and the content expression of the     *)
(* query is the literal 'No content available'.  For every kind.           *)
(***************************************************************************)
GeneratedWithoutColumn ==
    /\ insert_query.op # "none"
    /\ insert_query.contract_text_column = NoColumn
    /\ insert_query.available_columns = insert_query.columns
    /\ insert_query.columns # << >>

C26_NoMatchGivesSentinel ==
    (GeneratedWithoutColumn
        /\ SubstringMatches(insert_query.kind, insert_query.columns) = {})
        => /\ insert_query.content_field = NoColumn
           /\ insert_query.content = NoContentAvailable

(***************************************************************************)
(* C27: the keys of the metadata object of a query are source_table,       *)
(* content_column and data_type, and those metadata columns of the kind    *)
(* that are among the available columns: a column the table does not have  *)
(* is never a key.  For kind email and the columns id, body, created_at    *)
(* the content column is body and the keys are id, created_at,             *)
(* source_table, content_column and data_type.                             *)
(***************************************************************************)
MetadataCandidates(kind) == CoalescedFields(kind) \cup CommonFields(kind)

EmailScenario ==
    /\ insert_query.kind = "email"
    /\ insert_query.contract_text_column = NoColumn
    /\ insert_query.available_columns
          = <<<<"id">>, <<"body">>, <<"created", "_", "at">>>>

C27_MetadataKeysArePresentColumns ==
    (insert_query.op # "none" /\ insert_query.include_metadata)
        => /\ DOMAIN insert_query.metadata
                 = {source_table, content_column, data_type}
                      \cup (MetadataCandidates(insert_query.kind)
                               \cap Range(insert_query.available_columns))
           /\ EmailScenario
                 => /\ insert_query.content_field = <<"body">>
                    /\ DOMAIN insert_query.metadata
                          = {<<"id">>, <<"created", "_", "at">>, source_table,
                             content_column, data_type}

(***************************************************************************)
(* C28: a unit Discovery returned and whose ingestion failed during a sync *)
(* pass or an initialize pass has after the pass the entry it had before:  *)
(* none if it had none, and otherwise the same status, first_processed and *)
(* last_synced.                                                            *)
(***************************************************************************)
FailedUnits(r) == FullNames(r.attempted) \ FullNames(r.ingested)

C28_FailedUnitKeepsEntry ==
    [][(\/ IsRunningPassStep("sync_all_sources")
        \/ IsRunningPassStep("initialize_kb_with_existing_sources")) =>
        \A k \in FailedUnits(result') :
            IF k \in DOMAIN Tracked
            THEN /\ k \in DOMAIN Tracked'
                 /\ Tracked'[k].status = Tracked[k].status
                 /\ Tracked'[k].first_processed = Tracked[k].first_processed
                 /\ Tracked'[k].last_synced = Tracked[k].last_synced
            ELSE k \notin DOMAIN Tracked']_vars

\* a sync pass has failed on a unit an earlier pass had ingested, and on a
\* unit that has never been ingested
C28_Witness ==
    /\ result.op = "sync_all_sources"
    /\ \E k \in FailedUnits(result) :
          /\ k \in DOMAIN Tracked
          /\ Tracked[k].status = "processed"
          /\ Tracked[k].last_synced < processed_sources.last_sync
    /\ \E k \in FailedUnits(result) : k \notin DOMAIN Tracked

(***************************************************************************)
(* C29: cleanup_sync_job_if_needed drops no job of an instance that is in  *)
(* the registry with a non-empty list of selected tables, whatever the     *)
(* name of the instance and whether or not its tables can be listed; and   *)
(* a job is dropped only when its instance is no longer in the registry,   *)
(* or by drop_instance_sync_job.                                           *)
(***************************************************************************)
Selected(instance_name) ==
    /\ instance_name \in DOMAIN configs
    /\ Truthy(configs[instance_name].selected_tables)

DroppedJobs == jobs \ jobs'

C29_CleanupKeepsJobsOfSelected ==
    [][/\ IsPassStep("cleanup_sync_job_if_needed") =>
            \A j \in DroppedJobs : ~Selected(j.instance)
       /\ \A j \in DroppedJobs : IsDropStep \/ j.instance \notin DOMAIN configs]_vars

(***************************************************************************)
(* C30: when delete_integration(i) and a sync pass have both been asked    *)
(* for and both have returned, every entry of instance i has status        *)
(* removed and there is no job kb_sync_i; and no pass sets an entry from   *)
(* removed back to processed for an instance that has been deleted from    *)
(* the registry.                                                           *)
(***************************************************************************)
IsDeleted(r) == r.op = "delete_integration" /\ r.status = "deleted"

C30_DeletionOutlastsPass ==
    [][/\ (/\ result' # result
           /\ IsDeleted(result')
           /\ \E k \in DOMAIN Tracked : BelongsTo(k, result'.instance)) =>
            /\ \A k \in DOMAIN Tracked' :
                  BelongsTo(k, result'.instance) => Tracked'[k].status = "removed"
            /\ GetJobNameForInstance(result'.instance) \notin JobNames(jobs')
       /\ \A k \in DOMAIN Tracked :
            (Tracked[k].status = "removed" /\ Tracked'[k].status = "processed")
               => \E i \in DOMAIN configs : BelongsTo(k, i)]_vars

=============================================================================
